---- MODULE Spec2Model ----
(***************************************************************************)
(* AIvsAI (src/src/main.rs): the interactive loop that asks Moonshot for   *)
(* an answer, asks DeepSeek for a review of it, records the turn in the    *)
(* in-memory session and exports the session to markdown on /save.         *)
(*                                                                         *)
(* Text is a sequence of tokens: a token is one character ("e", " ",       *)
(* "\n") or a fixed piece of a format string.  format!() is concatenation. *)
(***************************************************************************)
EXTENDS Integers, Sequences, FiniteSets, TLC

\* ---------------------------------------------------------------- bounds
\* Largest value round_counter may take (the code's usize is unbounded).
MaxRounds == 2
\* Last tick of the wall clock.
MaxTime == 1
\* Clock ticks per second: the formatted timestamps have second resolution.
TicksPerSecond == 1

\* ------------------------------------------------------------- text
UpperLetters == <<"A","B","C","D","E","F","G","H","I","J","K","L","M",
                  "N","O","P","Q","R","S","T","U","V","W","X","Y","Z">>
LowerLetters == <<"a","b","c","d","e","f","g","h","i","j","k","l","m",
                  "n","o","p","q","r","s","t","u","v","w","x","y","z">>

\* The lower-case letter of each ASCII upper-case letter.
AsciiLower ==
    [c \in {UpperLetters[i] : i \in 1..26} |->
        LowerLetters[CHOOSE i \in 1..26 : UpperLetters[i] = c]]

\* char::to_ascii_lowercase
to_ascii_lowercase(c) == IF c \in DOMAIN AsciiLower THEN AsciiLower[c] ELSE c

\* str::eq_ignore_ascii_case
eq_ignore_ascii_case(a, b) ==
    /\ Len(a) = Len(b)
    /\ \A i \in 1..Len(a) : to_ascii_lowercase(a[i]) = to_ascii_lowercase(b[i])

\* char::is_whitespace, on the characters the model's lines are made of
is_whitespace(c) == c \in {" ", "\t", "\n", "\r"}

\* char::is_ascii_whitespace
is_ascii_whitespace(c) == c \in {" ", "\t", "\n", "\r"}

\* char::is_ascii_punctuation (the backquote, which no line of the model holds,
\* is left out: the lexer does not accept it inside a string)
is_ascii_punctuation(c) ==
    c \in {"!", "\"", "#", "$", "%", "&", "'", "(", ")", "*", "+", ",", "-",
           ".", "/", ":", ";", "<", "=", ">", "?", "@", "[", "\\", "]", "^",
           "_", "{", "|", "}", "~"}

RECURSIVE trim_start(_)
trim_start(s) ==
    IF s # <<>> /\ is_whitespace(Head(s)) THEN trim_start(Tail(s)) ELSE s

RECURSIVE trim_end(_)
trim_end(s) ==
    IF s # <<>> /\ is_whitespace(s[Len(s)])
    THEN trim_end(SubSeq(s, 1, Len(s) - 1))
    ELSE s

\* str::trim
trim(s) == trim_end(trim_start(s))

\* Iterator::take(n) on the characters of s
take(s, n) == SubSeq(s, 1, IF Len(s) < n THEN Len(s) ELSE n)

\* Concatenation of a sequence of texts.
RECURSIVE Concat(_)
Concat(ss) == IF ss = <<>> THEN <<>> ELSE Head(ss) \o Concat(Tail(ss))

\* [T]::join(sep)
RECURSIVE join(_, _)
join(ss, sep) ==
    IF ss = <<>> THEN <<>>
    ELSE IF Len(ss) = 1 THEN ss[1]
    ELSE ss[1] \o sep \o join(Tail(ss), sep)

\* Position of the first "\n" of s, 0 when there is none.
FirstNewline(s) ==
    IF \E i \in 1..Len(s) : s[i] = "\n"
    THEN CHOOSE i \in 1..Len(s) : s[i] = "\n" /\ \A j \in 1..(i - 1) : s[j] # "\n"
    ELSE 0

\* A line without the "\r" of a "\r\n" ending.
StripCr(l) ==
    IF l # <<>> /\ l[Len(l)] = "\r" THEN SubSeq(l, 1, Len(l) - 1) ELSE l

\* str::lines: split at "\n", a final empty line is not produced.
RECURSIVE lines(_)
lines(s) ==
    IF s = <<>> THEN <<>>
    ELSE LET i == FirstNewline(s) IN
         IF i = 0 THEN <<s>>
         ELSE <<StripCr(SubSeq(s, 1, i - 1))>> \o lines(SubSeq(s, i + 1, Len(s)))

\* usize Display
FormatNat(n) == <<ToString(n)>>

\* chrono format "%Y-%m-%d %H:%M:%S" of the clock value t: the whole seconds
FormatTimestamp(t) == <<"date", " ", ToString(t \div TicksPerSecond)>>

\* chrono format "%Y-%m-%d_%H-%M-%S" of the clock value t
FormatFilenameTimestamp(t) == <<"date", "_", ToString(t \div TicksPerSecond)>>

\* ------------------------------------------------------------- data
\* AiConfig::moonshot (the key is the one the environment holds at start)
moonshot_config ==
    [api_key  |-> <<"key-m">>,
     base_url |-> <<"https://api.moonshot.cn/v1/chat/completions">>,
     model    |-> <<"moonshot-v1-8k">>,
     name     |-> <<"Moonshot AI">>]

\* AiConfig::deepseek
deepseek_config ==
    [api_key  |-> <<"key-d">>,
     base_url |-> <<"https://api.deepseek.com/chat/completions">>,
     model    |-> <<"deepseek-chat">>,
     name     |-> <<"DeepSeek AI">>]

\* ConversationTurn::new at clock value t
ConversationTurn_new(round, user_question, moonshot_answer, deepseek_review, t) ==
    [round           |-> round,
     user_question   |-> user_question,
     moonshot_answer |-> moonshot_answer,
     deepseek_review |-> deepseek_review,
     timestamp       |-> FormatTimestamp(t)]

\* ConversationSession::new at clock value t
ConversationSession_new(t) == [turns |-> <<>>, start_time |-> FormatTimestamp(t)]

\* ConversationSession::add_turn: a mutant that puts the turn in front
add_turn_front(s, turn) == [s EXCEPT !.turns = <<turn>> \o @]

\* ConversationSession::add_turn
add_turn(s, turn) == [s EXCEPT !.turns = Append(@, turn)]

\* ConversationSession::is_empty: a mutant that never finds the session empty
is_empty_never(s) == FALSE

\* ConversationSession::is_empty
is_empty(s) == s.turns = <<>>

\* ConversationSession::len
len(s) == Len(s.turns)

\* ConversationSession::first_question: Option<&str>
first_question(s) ==
    IF s.turns = <<>> THEN [some |-> FALSE, v |-> <<>>]
    ELSE [some |-> TRUE, v |-> s.turns[1].user_question]

\* ------------------------------------------------------------- chat client
\* The request call_ai_api posts: ChatRequest, URL and headers.
ChatRequest(config, messages) ==
    [url           |-> config.base_url,
     authorization |-> <<"Bearer ">> \o config.api_key,
     content_type  |-> <<"application/json">>,
     model         |-> config.model,
     messages      |-> messages,
     temperature   |-> "0.7"]

\* StatusCode::is_success
is_success(status) == status >= 200 /\ status <= 299

Ok(v) == [ok |-> TRUE, value |-> v, err |-> [msg |-> <<>>, source |-> "none"]]
Err(msg, source) == [ok |-> FALSE, value |-> <<>>, err |-> [msg |-> msg, source |-> source]]

\* call_ai_api: a mutant that does not tell a body without choices from a body
\* that does not deserialize.
call_ai_api_empty_as_parse(config, resp) ==
    IF ~resp.sent
    THEN Err(<<"Failed to send request to ">> \o config.name, "transport")
    ELSE IF ~is_success(resp.status)
    THEN LET error_text == IF resp.text_ok THEN resp.text ELSE <<>> IN
         Err(<<"API Error from ">> \o config.name \o <<": ">> \o error_text, "none")
    ELSE IF ~resp.parses \/ resp.choices = <<>>
    THEN Err(<<"Failed to parse response from ">> \o config.name, "decode")
    ELSE Ok(resp.choices[1])

\* call_ai_api once the exchange has ended as resp: what it returns.
\* resp.sent: send() succeeded; resp.text_ok, resp.text: reading the body as
\* text; resp.parses, resp.choices: deserializing the body as ChatResponse.
call_ai_api(config, resp) ==
    IF ~resp.sent
    THEN Err(<<"Failed to send request to ">> \o config.name, "transport")
    ELSE IF ~is_success(resp.status)
    THEN LET error_text == IF resp.text_ok THEN resp.text ELSE <<>> IN
         Err(<<"API Error from ">> \o config.name \o <<": ">> \o error_text, "none")
    ELSE IF ~resp.parses
    THEN Err(<<"Failed to parse response from ">> \o config.name, "decode")
    ELSE IF resp.choices = <<>>
    THEN Err(<<"No choices returned from ">> \o config.name, "none")
    ELSE Ok(resp.choices[1])

\* call_ai_api's send: a mutant that posts the request a second time.
Posted_twice(sent, provider) == [sent EXCEPT ![provider] = @ + 2]

\* call_ai_api's send: one more request posted to the provider.
Posted(sent, provider) == [sent EXCEPT ![provider] = @ + 1]

\* "Thinking (..) ..." printed when the call starts
ThinkingLine(config) == <<"Thinking (">> \o config.name \o <<") ...">>

\* ------------------------------------------------------------- serializer
\* Mutant of generate_filename: only the whitespace is replaced.
generate_filename_keeps_punctuation(start_time, question, t) ==
    LET head == take(question, 20)
        summary == [i \in 1..Len(head) |->
                      IF is_ascii_whitespace(head[i]) THEN "_" ELSE head[i]]
    IN FormatFilenameTimestamp(t) \o <<"_">> \o summary \o <<".md">>

\* generate_filename at clock value t
generate_filename(start_time, question, t) ==
    LET head == take(question, 20)
        summary == [i \in 1..Len(head) |->
                      IF is_ascii_punctuation(head[i]) \/ is_ascii_whitespace(head[i])
                      THEN "_" ELSE head[i]]
    IN FormatFilenameTimestamp(t) \o <<"_">> \o summary \o <<".md">>

\* Mutant of format_content_with_prefix: the prefix is put once, before the
\* content.
format_content_with_prefix_once(content, prefix) == prefix \o content

\* format_content_with_prefix
format_content_with_prefix(content, prefix) ==
    LET ls == lines(content) IN
    join([i \in 1..Len(ls) |-> prefix \o ls[i]], <<"\n">>)

\* The working directory and the directories that hold a Cargo.toml.
CurrentDir == <<"home", "proj", "src">>
CargoTomlDirs == {<<"home", "proj">>}

\* find_project_dir, from directory dir upwards (the root <<>> has no parent)
RECURSIVE find_project_dir_from(_)
find_project_dir_from(dir) ==
    IF dir \in CargoTomlDirs THEN dir
    ELSE IF dir = <<>> THEN CurrentDir
    ELSE find_project_dir_from(SubSeq(dir, 1, Len(dir) - 1))

\* find_project_dir: fails when the working directory cannot be read
find_project_dir(cwd_ok) ==
    IF cwd_ok THEN [ok |-> TRUE, dir |-> find_project_dir_from(CurrentDir)]
    ELSE [ok |-> FALSE, dir |-> <<>>]

\* Mutant of the header: total_rounds is the round number of the last turn.
MarkdownHeader_last_round(s, moonshot_model, deepseek_model) ==
    <<"---", "\n", "session_start: ">> \o s.start_time \o
    <<"\n", "total_rounds: ">> \o FormatNat(s.turns[Len(s.turns)].round) \o
    <<"\n", "moonshot_model: ">> \o moonshot_model \o
    <<"\n", "deepseek_model: ">> \o deepseek_model \o
    <<"\n", "---", "\n", "\n", "# AIvsAI conversation record", "\n", "\n">>

\* The metadata header of the document (the non-ASCII words of the templates
\* are written as ASCII glosses).
MarkdownHeader(s, moonshot_model, deepseek_model) ==
    <<"---", "\n", "session_start: ">> \o s.start_time \o
    <<"\n", "total_rounds: ">> \o FormatNat(len(s)) \o
    <<"\n", "moonshot_model: ">> \o moonshot_model \o
    <<"\n", "deepseek_model: ">> \o deepseek_model \o
    <<"\n", "---", "\n", "\n", "# AIvsAI conversation record", "\n", "\n">>

\* The section of one turn.
MarkdownTurn(turn, moonshot_model, deepseek_model) ==
    <<"## round ">> \o FormatNat(turn.round) \o <<"\n", "\n">> \o
    <<"> ", "**user**: ">> \o turn.user_question \o <<"\n", "\n", "---", "\n", "\n">> \o
    <<"> ", "**Moonshot** (">> \o moonshot_model \o <<")", "\n", "> ", "\n">> \o
    format_content_with_prefix(turn.moonshot_answer, <<"> ">>) \o
    <<"\n", "\n", "---", "\n", "\n">> \o
    <<"> ", "**DeepSeek** (">> \o deepseek_model \o <<")", "\n", "> ", "\n">> \o
    format_content_with_prefix(turn.deepseek_review, <<"> ">>) \o
    <<"\n", "\n", "---", "\n", "\n">>

\* The markdown document save_conversation_session builds.
MarkdownContent(s, moonshot_model, deepseek_model) ==
    MarkdownHeader(s, moonshot_model, deepseek_model) \o
    Concat([i \in 1..Len(s.turns) |->
              MarkdownTurn(s.turns[i], moonshot_model, deepseek_model)])

\* A file system: the directories that exist and the files with their content.
\* std::fs::write of content to path.
fs_write(fs, path, content) ==
    [fs EXCEPT !.files = [p \in DOMAIN fs.files \cup {path} |->
                            IF p = path THEN content ELSE fs.files[p]]]

\* save_conversation_session at clock value t on file system fs.  cwd_ok,
\* mkdir_ok, write_ok: whether reading the working directory, creating the
\* directory and writing the file succeed; a failed write may have truncated
\* the file (truncated).
save_conversation_session(s, moonshot_model, deepseek_model, t, fs, cwd_ok, mkdir_ok, write_ok, truncated) ==
    LET project == find_project_dir(cwd_ok)
        conversations_dir == project.dir \o <<"conversations">>
        fq == first_question(s)
        filename == generate_filename(s.start_time,
                                      IF fq.some THEN fq.v
                                      ELSE <<"c","o","n","v","e","r","s","a","t","i","o","n">>,
                                      t)
        filepath == [dir |-> conversations_dir, name |-> filename]
        content == MarkdownContent(s, moonshot_model, deepseek_model)
        made == [fs EXCEPT !.dirs = @ \cup {conversations_dir}]
    IN  IF ~project.ok
        THEN [ok |-> FALSE, path |-> filepath, fs |-> fs,
              err |-> <<"Failed to get current directory">>]
        ELSE IF conversations_dir \notin fs.dirs /\ ~mkdir_ok
        THEN [ok |-> FALSE, path |-> filepath, fs |-> fs,
              err |-> <<"Failed to create conversations directory">>]
        ELSE IF ~write_ok
        THEN [ok |-> FALSE, path |-> filepath,
              fs |-> IF truncated THEN fs_write(made, filepath, <<>>) ELSE made,
              err |-> <<"Failed to write conversation file">>]
        ELSE [ok |-> TRUE, path |-> filepath,
              fs |-> fs_write(made, filepath, content), err |-> <<>>]

\* ------------------------------------------------------------- state
VARIABLES
    pc,               \* where main is: "AwaitInput" (rl.readline), "CallAnswerer",
                      \* "CallReviewer" (awaiting call_ai_api), "Exited"
    session,          \* session: ConversationSession
    round_counter,    \* round_counter
    readline,         \* readline: the result of the last rl.readline
    input,            \* input of the current iteration, when it was assigned
    moonshot_answer,  \* moonshot_answer of the current iteration, when assigned
    request,          \* the request call_ai_api has posted and awaits, if any
    response,         \* how the exchange call_ai_api last awaited in this iteration
                      \* ended, if one has
    calls,            \* the number of requests posted to each provider
    shown,            \* what the current iteration has printed
    fs,               \* the file system: directories and files
    now,              \* the wall clock, in ticks
    completed,        \* history: the questions whose two calls both succeeded
    failed,           \* history: the calls that failed
    turns_before,     \* history: session.turns when the last question was read
    boot              \* what startup works on: the environment, the config file,
                      \* the prompts printed, the line typed, the keys resolved
                      \* and the configuration error displayed

vars == <<pc, session, round_counter, readline, input, moonshot_answer, request,
          response, calls, shown, fs, now, completed, failed, turns_before, boot>>

\* ------------------------------------------------------------- main loop
Some(v) == [some |-> TRUE, v |-> v]
NoValue == [some |-> FALSE, v |-> <<>>]

ExitWord == <<"e","x","i","t">>
QuitWord == <<"q","u","i","t">>
SaveWord == <<"/","s","a","v","e">>

\* Mutant of the exit test: "quit" is forgotten.
IsExitCommand_no_quit(text) == eq_ignore_ascii_case(text, ExitWord)

\* The exit test of the loop.
IsExitCommand(text) ==
    eq_ignore_ascii_case(text, ExitWord) \/ eq_ignore_ascii_case(text, QuitWord)

\* Mutant of the /save test: compared without folding case.
IsSaveCommand_exact(text) == text = SaveWord

\* The /save test of the loop.
IsSaveCommand(text) == eq_ignore_ascii_case(text, SaveWord)

ChatMessage(role, content) == [role |-> role, content |-> content]

\* The messages sent to the answerer.
moonshot_messages(user_input) ==
    <<ChatMessage("system", <<"You are a helpful AI assistant.">>),
      ChatMessage("user", user_input)>>

\* Mutant of the review prompt: the answer is the one of the last recorded
\* turn, when there is one.
review_prompt_stale(user_input, answer) ==
    <<"The user asked: \"">> \o user_input \o
    <<"\"\n\nAnother AI assistant provided the following answer:\n\"">> \o
    (IF session.turns = <<>> THEN answer
     ELSE session.turns[Len(session.turns)].moonshot_answer) \o
    <<"\"\n\nPlease review this answer. [...] provide your review entirely in Chinese.">>

\* The review prompt.
review_prompt(user_input, answer) ==
    <<"The user asked: \"">> \o user_input \o
    <<"\"\n\nAnother AI assistant provided the following answer:\n\"">> \o
    answer \o
    <<"\"\n\nPlease review this answer. [...] provide your review entirely in Chinese.">>

\* The messages sent to the reviewer.
deepseek_messages(prompt) ==
    <<ChatMessage("system", <<"You are an expert technical reviewer. [...]">>),
      ChatMessage("user", prompt)>>

\* Mutant of the answerer's match: the reviewer is called whatever the result.
AfterAnswer_always_review(result) == "CallReviewer"

\* Mutant of the answerer's match: the error is propagated out of main with `?`.
AfterAnswer_fatal(result) == IF result.ok THEN "CallReviewer" ELSE "Exited"

\* Where the loop goes after the answerer's result: on to the reviewer, or
\* `continue`.
AfterAnswer(result) == IF result.ok THEN "CallReviewer" ELSE "AwaitInput"

\* Mutant of the reviewer's match: a failed review records the turn without it.
RecordTurn_partial(s, round, user_input, answer, result, t) ==
    add_turn(s, ConversationTurn_new(round, user_input, answer, result.value, t))

\* The session after the reviewer's result: the turn is added, or `continue`.
RecordTurn(s, round, user_input, answer, result, t) ==
    IF result.ok
    THEN add_turn(s, ConversationTurn_new(round, user_input, answer, result.value, t))
    ELSE s

\* Mutant of the counter: it is incremented twice.
NextRound_twice(n) == n + 2

\* Mutant of the counter's increment: the counter is set to one.
NextRound_restart(n) == 1

\* round_counter += 1
NextRound(n) == n + 1

\* ------------------------------------------------------------- environment
AnswerA == <<"x">>
AnswerB == <<"y", "\n", "## round ", "9">>
ReviewA == <<"o", "k", "\r", "\n", "!">>
ReviewB == <<"n", "o">>
RateLimited == <<"r","a","t","e"," ","l","i","m","i","t","e","d">>

HttpResponse(sent, status, text_ok, text, parses, choices) ==
    [sent |-> sent, status |-> status, text_ok |-> text_ok, text |-> text,
     parses |-> parses, choices |-> choices]

Received(resp) == [some |-> TRUE, v |-> resp]
NoResponse == [some |-> FALSE, v |-> HttpResponse(FALSE, 0, FALSE, <<>>, FALSE, <<>>)]

\* The ways an exchange with either provider can fail: the request is not
\* sent, a 429 with a body, a 500 whose body cannot be read, a 200 whose body
\* is not a ChatResponse, a 200 without choices.
FailureResponses ==
    { HttpResponse(FALSE, 0, FALSE, <<>>, FALSE, <<>>),
      HttpResponse(TRUE, 429, TRUE, RateLimited, FALSE, <<>>),
      HttpResponse(TRUE, 500, FALSE, <<>>, FALSE, <<>>),
      HttpResponse(TRUE, 200, TRUE, <<"not json">>, FALSE, <<>>),
      HttpResponse(TRUE, 200, TRUE, <<"{choices: []}">>, TRUE, <<>>) }

\* The ways an exchange with the answerer can end.
AnswererResponses ==
    FailureResponses \cup
    { HttpResponse(TRUE, 200, TRUE, <<"{choices: [x]}">>, TRUE, <<AnswerA>>),
      HttpResponse(TRUE, 200, TRUE, <<"{choices: [y.## round 9, x]}">>, TRUE, <<AnswerB, AnswerA>>) }

\* The ways an exchange with the reviewer can end.
ReviewerResponses ==
    FailureResponses \cup
    { HttpResponse(TRUE, 201, TRUE, <<"{choices: [ok.!, no]}">>, TRUE, <<ReviewA, ReviewB>>) }

\* The lines the user types ("U+4F60" stands for one character outside ASCII).
Lines ==
    { <<" ", "\t">>,
      <<"e","x","i","t">>,
      <<" ","Q","u","i","T"," ">>,
      <<" ","/","S","a","v","E">>,
      <<"h","i","?">>,
      <<"e","x","i","t"," ","n","o","w",":"," ","U+4F60"," ","I","s"," ",
        "1","+","1","=","2","?"," ","o","k"," ">> }

\* The lines by the branch of the loop that takes them, in the order of the
\* loop's tests: exit, empty, /save, question.
ExitLines == {l \in Lines : IsExitCommand(trim(l))}
EmptyLines == {l \in Lines \ ExitLines : trim(l) = <<>>}
SaveLines == {l \in Lines \ (ExitLines \cup EmptyLines) : IsSaveCommand(trim(l))}
QuestionLines == Lines \ (ExitLines \cup EmptyLines \cup SaveLines)

NoRequest == [url |-> <<>>, authorization |-> <<>>, content_type |-> <<>>,
              model |-> <<>>, messages |-> <<>>, temperature |-> ""]

NoReadline == [tag |-> "None", line |-> <<>>]

\* Startup as it is when the loop is entered with both keys found in the
\* environment and no config file.
BootDone ==
    [home     |-> Some(<<"home">>),
     env      |-> [MOONSHOT_API_KEY |-> Some(moonshot_config.api_key),
                   DEEPSEEK_API_KEY |-> Some(deepseek_config.api_key)],
     file     |-> NoValue,
     typed    |-> NoValue,
     prompted |-> <<>>,
     keys     |-> [moonshot |-> Some(moonshot_config.api_key),
                   deepseek |-> Some(deepseek_config.api_key)],
     error    |-> NoValue]

Init ==
    /\ pc = "AwaitInput"
    /\ now = 0
    /\ session = ConversationSession_new(now)
    /\ round_counter = 0
    /\ readline = NoReadline
    /\ input = NoValue
    /\ moonshot_answer = NoValue
    /\ request = NoRequest
    /\ response = NoResponse
    /\ calls = [moonshot |-> 0, deepseek |-> 0]
    /\ shown = <<>>
    /\ fs = [dirs |-> {}, files |-> [p \in {} |-> <<>>]]
    /\ completed = 0
    /\ failed = 0
    /\ turns_before = <<>>
    /\ boot = BootDone

\* Time passes.
Tick ==
    /\ now < MaxTime
    /\ now' = now + 1
    /\ UNCHANGED boot
    /\ UNCHANGED <<pc, session, round_counter, readline, input, moonshot_answer,
                   request, response, calls, shown, fs, completed, failed, turns_before>>

\* rl.readline returns Err(Interrupted): Ctrl+C.
ReadInterrupted ==
    /\ pc = "AwaitInput"
    /\ readline' = [tag |-> "Interrupted", line |-> <<>>]
    /\ input' = NoValue
    /\ moonshot_answer' = NoValue
    /\ response' = NoResponse
    /\ shown' = << <<"\nUse 'exit' or 'quit' to exit.">> >>
    /\ UNCHANGED boot
    /\ UNCHANGED <<pc, session, round_counter, request, calls, fs, now,
                   completed, failed, turns_before>>

\* rl.readline returns Err(Eof): Ctrl+D.
ReadEof ==
    /\ pc = "AwaitInput"
    /\ readline' = [tag |-> "Eof", line |-> <<>>]
    /\ input' = NoValue
    /\ moonshot_answer' = NoValue
    /\ response' = NoResponse
    /\ shown' = <<>>
    /\ pc' = "Exited"
    /\ UNCHANGED boot
    /\ UNCHANGED <<session, round_counter, request, calls, fs, now,
                   completed, failed, turns_before>>

\* rl.readline returns another error.
ReadError ==
    /\ pc = "AwaitInput"
    /\ readline' = [tag |-> "Err", line |-> <<>>]
    /\ input' = NoValue
    /\ moonshot_answer' = NoValue
    /\ response' = NoResponse
    /\ shown' = << <<"Error reading input: ", "io">> >>
    /\ UNCHANGED boot
    /\ UNCHANGED <<pc, session, round_counter, request, calls, fs, now,
                   completed, failed, turns_before>>

\* The line read is exit or quit.
ReadExit ==
    \E line \in ExitLines :
        /\ pc = "AwaitInput"
        /\ readline' = [tag |-> "Ok", line |-> line]
        /\ input' = Some(trim(line))
        /\ moonshot_answer' = NoValue
        /\ response' = NoResponse
        /\ shown' = <<>>
        /\ pc' = "Exited"
        /\ UNCHANGED boot
        /\ UNCHANGED <<session, round_counter, request, calls, fs, now,
                       completed, failed, turns_before>>

\* The line read is empty once trimmed.
ReadEmpty ==
    \E line \in EmptyLines :
        /\ pc = "AwaitInput"
        /\ readline' = [tag |-> "Ok", line |-> line]
        /\ input' = Some(trim(line))
        /\ moonshot_answer' = NoValue
        /\ response' = NoResponse
        /\ shown' = <<>>
        /\ UNCHANGED boot
        /\ UNCHANGED <<pc, session, round_counter, request, calls, fs, now,
                       completed, failed, turns_before>>

\* What can go wrong in a save: reading the working directory, creating the
\* directory, writing the file (which may have been truncated by then).
SaveFaults ==
    { [cwd_ok |-> TRUE,  mkdir_ok |-> TRUE,  write_ok |-> TRUE,  truncated |-> FALSE],
      [cwd_ok |-> FALSE, mkdir_ok |-> TRUE,  write_ok |-> TRUE,  truncated |-> FALSE],
      [cwd_ok |-> TRUE,  mkdir_ok |-> FALSE, write_ok |-> TRUE,  truncated |-> FALSE],
      [cwd_ok |-> TRUE,  mkdir_ok |-> TRUE,  write_ok |-> FALSE, truncated |-> FALSE],
      [cwd_ok |-> TRUE,  mkdir_ok |-> TRUE,  write_ok |-> FALSE, truncated |-> TRUE] }

\* The line read is /save.
ReadSave ==
    \E line \in SaveLines :
        /\ pc = "AwaitInput"
        /\ readline' = [tag |-> "Ok", line |-> line]
        /\ input' = Some(trim(line))
        /\ moonshot_answer' = NoValue
        /\ response' = NoResponse
        /\ IF is_empty(session)
           THEN /\ shown' = << <<"No conversation to save yet. Ask a question first!">> >>
                /\ fs' = fs
           ELSE \E f \in SaveFaults :
                LET saved == save_conversation_session(session, moonshot_config.model,
                                 deepseek_config.model, now, fs,
                                 f.cwd_ok, f.mkdir_ok, f.write_ok, f.truncated)
                IN /\ fs' = saved.fs
                   /\ shown' = IF saved.ok
                               THEN << <<"Conversation saved to: ">> \o saved.path.dir
                                          \o <<"/">> \o saved.path.name,
                                       <<"  Total rounds saved: ">> \o FormatNat(len(session)) >>
                               ELSE << <<"Failed to save conversation: ">> \o saved.err >>
        /\ UNCHANGED boot
        /\ UNCHANGED <<pc, session, round_counter, request, calls, now,
                       completed, failed, turns_before>>

\* The line read is a question: the counter is incremented and the answerer
\* is called.
ReadQuestion ==
    \E line \in QuestionLines :
        /\ pc = "AwaitInput"
        /\ round_counter < MaxRounds
        /\ readline' = [tag |-> "Ok", line |-> line]
        /\ input' = Some(trim(line))
        /\ moonshot_answer' = NoValue
        /\ response' = NoResponse
        /\ round_counter' = NextRound(round_counter)
        /\ request' = ChatRequest(moonshot_config, moonshot_messages(trim(line)))
        /\ calls' = Posted(calls, "moonshot")
        /\ shown' = << ThinkingLine(moonshot_config) >>
        /\ pc' = "CallAnswerer"
        /\ turns_before' = session.turns
        /\ UNCHANGED boot
        /\ UNCHANGED <<session, fs, now, completed, failed>>

\* Mutant of the answer's display: the answer is not printed before the review.
PrintAnswer_deferred(printed, answer) == printed

\* What is printed once the answerer has answered: the heading and the answer.
PrintAnswer(printed, answer) ==
    printed \o << <<"--- Moonshot AI Answer ---">>, answer >>

\* call_ai_api to the answerer returns.
AnswererReturns ==
    \E resp \in AnswererResponses :
        LET result == call_ai_api(moonshot_config, resp) IN
        /\ pc = "CallAnswerer"
        /\ response' = Received(resp)
        /\ pc' = AfterAnswer(result)
        /\ IF pc' = "CallReviewer"
           THEN /\ moonshot_answer' = Some(result.value)
                /\ request' = ChatRequest(deepseek_config,
                                  deepseek_messages(review_prompt(input.v, result.value)))
                /\ calls' = Posted(calls, "deepseek")
                /\ shown' = PrintAnswer(shown, result.value)
                                \o << ThinkingLine(deepseek_config) >>
           ELSE /\ moonshot_answer' = NoValue
                /\ request' = NoRequest
                /\ calls' = calls
                /\ shown' = shown \o << <<"Moonshot Error: ">> \o result.err.msg >>
        /\ failed' = IF result.ok THEN failed ELSE failed + 1
        /\ UNCHANGED boot
        /\ UNCHANGED <<session, round_counter, readline, input, fs, now, completed,
                       turns_before>>

\* call_ai_api to the reviewer returns.
ReviewerReturns ==
    \E resp \in ReviewerResponses :
        LET result == call_ai_api(deepseek_config, resp) IN
        /\ pc = "CallReviewer"
        /\ response' = Received(resp)
        /\ request' = NoRequest
        /\ session' = RecordTurn(session, round_counter, input.v, moonshot_answer.v,
                                 result, now)
        /\ shown' = IF result.ok
                    THEN shown \o << <<"--- DeepSeek AI Review ---">>, result.value,
                                     <<"Round ">> \o FormatNat(round_counter)
                                        \o <<" completed. Type /save to save this conversation">> >>
                    ELSE shown \o << <<"DeepSeek Error: ">> \o result.err.msg >>
        /\ pc' = "AwaitInput"
        /\ completed' = IF result.ok THEN completed + 1 ELSE completed
        /\ failed' = IF result.ok THEN failed ELSE failed + 1
        /\ UNCHANGED boot
        /\ UNCHANGED <<round_counter, readline, input, moonshot_answer, calls, fs, now,
                       turns_before>>

Next ==
    \/ Tick
    \/ ReadInterrupted
    \/ ReadEof
    \/ ReadError
    \/ ReadExit
    \/ ReadEmpty
    \/ ReadSave
    \/ ReadQuestion
    \/ AnswererReturns
    \/ ReviewerReturns

Spec == Init /\ [][Next]_vars

\* The loop awaits each call it issued; every issued call returns.
FairSpec == Spec /\ WF_vars(AnswererReturns) /\ WF_vars(ReviewerReturns)

\* ------------------------------------------------------------- startup
EnvVars == {"MOONSHOT_API_KEY", "DEEPSEEK_API_KEY"}

\* dotenvy::from_path: each line VAR=value of the file sets VAR unless the
\* environment already holds it.
RECURSIVE from_path(_, _)
from_path(env, file_lines) ==
    IF file_lines = <<>> THEN env
    ELSE LET line == Head(file_lines)
             var == line[1]
             value == SubSeq(line, 3, Len(line))
         IN from_path(IF env[var].some THEN env ELSE [env EXCEPT ![var] = Some(value)],
                      Tail(file_lines))

\* AiConfig::get_config_path
get_config_path(b) ==
    IF b.home.some
    THEN [ok |-> TRUE, path |-> b.home.v \o <<".ai_vs_ai_config">>, err |-> <<>>]
    ELSE [ok |-> FALSE, path |-> <<>>,
          err |-> <<"Could not find HOME environment variable">>]

\* What can go wrong with the prompt and the config file.
StartupFaults ==
    { [flush_ok |-> TRUE,  read_ok |-> TRUE,  open_ok |-> TRUE,  write_ok |-> TRUE],
      [flush_ok |-> FALSE, read_ok |-> TRUE,  open_ok |-> TRUE,  write_ok |-> TRUE],
      [flush_ok |-> TRUE,  read_ok |-> FALSE, open_ok |-> TRUE,  write_ok |-> TRUE],
      [flush_ok |-> TRUE,  read_ok |-> TRUE,  open_ok |-> FALSE, write_ok |-> TRUE],
      [flush_ok |-> TRUE,  read_ok |-> TRUE,  open_ok |-> TRUE,  write_ok |-> FALSE] }

\* Mutant of get_api_key: the empty test is missing.
get_api_key_accepts_empty(b, env_var, provider_name, typed, io) ==
    LET prompted == [b EXCEPT !.prompted = Append(@, provider_name)]
        read == [prompted EXCEPT !.typed = Some(typed)]
        trimmed == trim(typed)
        config_path == get_config_path(b)
        opened == [read EXCEPT !.file = IF @.some THEN @ ELSE Some(<<>>)]
        written == [opened EXCEPT !.file = Some(Append(@.v, <<env_var, "=">> \o trimmed))]
        set == [written EXCEPT !.env[env_var] = Some(trimmed)]
    IN  IF b.env[env_var].some /\ b.env[env_var].v # <<>>
        THEN [ok |-> TRUE, value |-> b.env[env_var].v, err |-> <<>>, boot |-> b]
        ELSE IF ~io.flush_ok
        THEN [ok |-> FALSE, value |-> <<>>, err |-> <<"io error">>, boot |-> prompted]
        ELSE IF ~io.read_ok
        THEN [ok |-> FALSE, value |-> <<>>, err |-> <<"io error">>, boot |-> prompted]
        ELSE IF ~config_path.ok
        THEN [ok |-> FALSE, value |-> <<>>, err |-> config_path.err, boot |-> read]
        ELSE IF ~io.open_ok
        THEN [ok |-> FALSE, value |-> <<>>,
              err |-> <<"Failed to open config file at ">> \o config_path.path,
              boot |-> read]
        ELSE IF ~io.write_ok
        THEN [ok |-> FALSE, value |-> <<>>, err |-> <<"io error">>, boot |-> opened]
        ELSE [ok |-> TRUE, value |-> trimmed, err |-> <<>>, boot |-> set]

\* AiConfig::get_api_key on startup data b: typed is the line read at the
\* prompt, io what fails.  The result and the startup data it leaves.
get_api_key(b, env_var, provider_name, typed, io) ==
    LET prompted == [b EXCEPT !.prompted = Append(@, provider_name)]
        read == [prompted EXCEPT !.typed = Some(typed)]
        trimmed == trim(typed)
        config_path == get_config_path(b)
        opened == [read EXCEPT !.file = IF @.some THEN @ ELSE Some(<<>>)]
        written == [opened EXCEPT !.file = Some(Append(@.v, <<env_var, "=">> \o trimmed))]
        set == [written EXCEPT !.env[env_var] = Some(trimmed)]
    IN  IF b.env[env_var].some /\ b.env[env_var].v # <<>>
        THEN [ok |-> TRUE, value |-> b.env[env_var].v, err |-> <<>>, boot |-> b]
        ELSE IF ~io.flush_ok
        THEN [ok |-> FALSE, value |-> <<>>, err |-> <<"io error">>, boot |-> prompted]
        ELSE IF ~io.read_ok
        THEN [ok |-> FALSE, value |-> <<>>, err |-> <<"io error">>, boot |-> prompted]
        ELSE IF trimmed = <<>>
        THEN [ok |-> FALSE, value |-> <<>>,
              err |-> <<"API Key for ">> \o provider_name \o <<" cannot be empty">>,
              boot |-> read]
        ELSE IF ~config_path.ok
        THEN [ok |-> FALSE, value |-> <<>>, err |-> config_path.err, boot |-> read]
        ELSE IF ~io.open_ok
        THEN [ok |-> FALSE, value |-> <<>>,
              err |-> <<"Failed to open config file at ">> \o config_path.path,
              boot |-> read]
        ELSE IF ~io.write_ok
        THEN [ok |-> FALSE, value |-> <<>>, err |-> <<"io error">>, boot |-> opened]
        ELSE [ok |-> TRUE, value |-> trimmed, err |-> <<>>, boot |-> set]

\* The values a key can have in the environment at start.
EnvValues(key) == {NoValue, Some(<<>>), Some(key)}

\* The config files there can be at start.
ConfigFiles ==
    { NoValue,
      Some(<< <<"MOONSHOT_API_KEY", "=">> \o moonshot_config.api_key >>),
      Some(<< <<"DEEPSEEK_API_KEY", "=">> \o deepseek_config.api_key,
              <<"DEEPSEEK_API_KEY", "=", "old">> >>) }

\* The lines typed at the prompt (none at the end of the input).
PromptInputs ==
    { <<>>, <<"\n">>, <<" ", "\t", "\n">>, <<" ", "k", "2", "\r", "\n">> }

\* The state main starts in.
StartupInit ==
    /\ pc = "LoadConfig"
    /\ now = 0
    /\ session = ConversationSession_new(now)
    /\ round_counter = 0
    /\ readline = NoReadline
    /\ input = NoValue
    /\ moonshot_answer = NoValue
    /\ request = NoRequest
    /\ response = NoResponse
    /\ calls = [moonshot |-> 0, deepseek |-> 0]
    /\ shown = <<>>
    /\ fs = [dirs |-> {}, files |-> [p \in {} |-> <<>>]]
    /\ completed = 0
    /\ failed = 0
    /\ turns_before = <<>>
    /\ \E home \in {NoValue, Some(<<"home">>)},
          m \in EnvValues(moonshot_config.api_key),
          d \in EnvValues(deepseek_config.api_key),
          file \in ConfigFiles :
          /\ (~home.some => ~file.some)
          /\ boot = [home     |-> home,
                     env      |-> [MOONSHOT_API_KEY |-> m, DEEPSEEK_API_KEY |-> d],
                     file     |-> file,
                     typed    |-> NoValue,
                     prompted |-> <<>>,
                     keys     |-> [moonshot |-> NoValue, deepseek |-> NoValue],
                     error    |-> NoValue]

LoopVars == <<session, round_counter, readline, input, moonshot_answer, request,
              response, calls, shown, fs, now, completed, failed, turns_before>>

\* main loads the config file, when HOME is set and the file exists.
LoadConfig ==
    /\ pc = "LoadConfig"
    /\ boot' = IF boot.home.some /\ boot.file.some
               THEN [boot EXCEPT !.env = from_path(@, boot.file.v)]
               ELSE boot
    /\ pc' = "ResolveMoonshot"
    /\ UNCHANGED LoopVars

\* The startup data and the place of main after a configuration is resolved,
\* or not: on an error it is displayed and main returns.
AfterResolve(result, provider, next_pc) ==
    IF result.ok
    THEN [boot |-> [result.boot EXCEPT !.keys[provider] = Some(result.value)],
          pc |-> next_pc]
    ELSE [boot |-> [result.boot EXCEPT
                       !.error = Some(<<"Configuration Error: ">> \o result.err)],
          pc |-> "Exited"]

\* main resolves the answerer's configuration.
ResolveMoonshot ==
    \E typed \in PromptInputs, io \in StartupFaults :
        LET after == AfterResolve(get_api_key(boot, "MOONSHOT_API_KEY",
                                              moonshot_config.name, typed, io),
                                  "moonshot", "ResolveDeepseek")
        IN /\ pc = "ResolveMoonshot"
           /\ boot' = after.boot
           /\ pc' = after.pc
           /\ UNCHANGED LoopVars

\* main resolves the reviewer's configuration.
ResolveDeepseek ==
    \E typed \in PromptInputs, io \in StartupFaults :
        LET after == AfterResolve(get_api_key(boot, "DEEPSEEK_API_KEY",
                                              deepseek_config.name, typed, io),
                                  "deepseek", "NewEditor")
        IN /\ pc = "ResolveDeepseek"
           /\ boot' = after.boot
           /\ pc' = after.pc
           /\ UNCHANGED LoopVars

\* main makes the line editor, which may fail, the session and the counter,
\* and enters the loop.
NewEditor ==
    \E editor_ok \in BOOLEAN :
        /\ pc = "NewEditor"
        /\ pc' = IF editor_ok THEN "AwaitInput" ELSE "Exited"
        /\ session' = IF editor_ok THEN ConversationSession_new(now) ELSE session
        /\ round_counter' = 0
        /\ UNCHANGED <<readline, input, moonshot_answer, request, response, calls,
                       shown, fs, now, completed, failed, turns_before, boot>>

StartupNext ==
    \/ LoadConfig
    \/ ResolveMoonshot
    \/ ResolveDeepseek
    \/ NewEditor

StartupSpec == StartupInit /\ [][StartupNext]_vars

\* ------------------------------------------------------------- properties
\* sub occurs in s as a contiguous piece.
Contains(s, sub) ==
    \E i \in 0..(Len(s) - Len(sub)) : SubSeq(s, i + 1, i + Len(sub)) = sub

IsPrefix(s, t) == Len(s) <= Len(t) /\ SubSeq(t, 1, Len(s)) = s

\* The last iteration was a question and its answerer call failed.
AnswerFailed ==
    /\ pc = "AwaitInput"
    /\ readline.tag = "Ok" /\ readline.line \in QuestionLines
    /\ response.some
    /\ ~moonshot_answer.some

\* The last iteration was a question whose answerer call succeeded and whose
\* reviewer call failed.
ReviewFailed ==
    /\ pc = "AwaitInput"
    /\ moonshot_answer.some
    /\ response.some
    /\ ~call_ai_api(deepseek_config, response.v).ok

\* The last iteration was a question whose two calls succeeded.
TurnCompleted ==
    /\ pc = "AwaitInput"
    /\ moonshot_answer.some
    /\ response.some
    /\ call_ai_api(deepseek_config, response.v).ok

\* C1: whatever calls failed, the Nth recorded turn has round = N.
C1_RoundIsPosition ==
    \A i \in 1..Len(session.turns) : session.turns[i].round = i

\* C2: as long as no call has failed, the Nth recorded turn has round = N,
\* the number of recorded turns is the number of questions whose answer and
\* review both completed, and the counter is that number (plus the question
\* in progress): /save and empty lines have incremented neither.
C2_SuccessfulRunsNumberTurns ==
    failed = 0 =>
        /\ \A i \in 1..Len(session.turns) : session.turns[i].round = i
        /\ Len(session.turns) = completed
        /\ round_counter =
              completed + (IF pc \in {"CallAnswerer", "CallReviewer"} THEN 1 ELSE 0)

\* C2 witness: two turns recorded without a failure, a save made in between
\* or after, and an empty line read last.
C2_Witness ==
    /\ failed = 0
    /\ completed = 2
    /\ DOMAIN fs.files # {}
    /\ readline.tag = "Ok" /\ readline.line \in EmptyLines

\* C3: after a reviewer failure that follows a successful answer, the turns
\* are those recorded before the question was read; and every recorded turn
\* holds a question, an answer returned by the answerer and a review returned
\* by the reviewer.
C3_ReviewFailureRecordsNothing ==
    /\ ReviewFailed => session.turns = turns_before
    /\ \A i \in 1..Len(session.turns) :
          /\ session.turns[i].user_question # <<>>
          /\ \E r \in AnswererResponses :
                /\ call_ai_api(moonshot_config, r).ok
                /\ session.turns[i].moonshot_answer = call_ai_api(moonshot_config, r).value
          /\ \E r \in ReviewerResponses :
                /\ call_ai_api(deepseek_config, r).ok
                /\ session.turns[i].deepseek_review = call_ai_api(deepseek_config, r).value

\* C3 witness: a turn is recorded, then a question is answered and its review
\* fails.
C3_Witness ==
    /\ ReviewFailed
    /\ Len(session.turns) = 1
    /\ round_counter = 2

\* C4: the step in which the answerer call fails returns to awaiting input,
\* posts no request to the reviewer and leaves the session as it was.
C4_AnswerFailureAbandonsTurn ==
    [][ ( /\ pc = "CallAnswerer"
          /\ response'.some
          /\ ~call_ai_api(moonshot_config, response'.v).ok )
        => ( /\ pc' = "AwaitInput"
             /\ session' = session
             /\ calls'.deepseek = calls.deepseek
             /\ request' = NoRequest ) ]_vars

\* C4 witness: after a recorded turn, the answerer call of the next question
\* has failed.
C4_Witness ==
    /\ AnswerFailed
    /\ Len(session.turns) = 1
    /\ calls.moonshot = 2
    /\ calls.deepseek = 1

\* C5: while the reviewer is awaited, the answerer has returned an answer for
\* this input and the request posted is the reviewer's, its user message
\* holding this input and this answer between the fixed pieces of the prompt;
\* once the turn is recorded, it holds this input, this answer and the review
\* that came back.
C5_ReviewBoundToAnswer ==
    /\ pc = "CallReviewer" =>
          /\ input.some /\ moonshot_answer.some /\ response.some
          /\ call_ai_api(moonshot_config, response.v) = Ok(moonshot_answer.v)
          /\ request.url = deepseek_config.base_url
          /\ LET content == request.messages[2].content
                 q == input.v
                 a == moonshot_answer.v
             IN /\ request.messages[2].role = "user"
                /\ Len(content) = Len(q) + Len(a) + 3
                /\ SubSeq(content, 2, 1 + Len(q)) = q
                /\ SubSeq(content, 3 + Len(q), 2 + Len(q) + Len(a)) = a
    /\ TurnCompleted =>
          /\ session.turns # <<>>
          /\ LET turn == session.turns[Len(session.turns)]
             IN /\ turn.user_question = input.v
                /\ turn.moonshot_answer = moonshot_answer.v
                /\ turn.deepseek_review = call_ai_api(deepseek_config, response.v).value
          /\ calls.deepseek <= calls.moonshot

\* C5 witness: a second turn is recorded whose answer differs from the one of
\* the first turn.
C5_Witness ==
    /\ TurnCompleted
    /\ Len(session.turns) = 2
    /\ session.turns[1].moonshot_answer # session.turns[2].moonshot_answer
    /\ session.turns[1].user_question # session.turns[2].user_question

\* C6: every step leaves the recorded turns as a prefix of the turns after
\* it (and the session's start time as it was): a recorded turn is never
\* removed, moved or changed.
C6_SessionAppendOnly ==
    [][ /\ IsPrefix(session.turns, session'.turns)
        /\ session'.start_time = session.start_time ]_vars

\* C6 witness: a turn was recorded, a later question failed and a save was
\* made.
C6_Witness ==
    /\ Len(session.turns) = 1
    /\ session.turns[1].round = 1
    /\ failed = 1
    /\ round_counter = 2
    /\ DOMAIN fs.files # {}
    /\ pc = "AwaitInput"

\* C7: a step that reads /save, in any case, leaves the session and the
\* counter as they were, posts no request and stays in awaiting input.
C7_SaveLeavesSession ==
    [][ ( /\ pc = "AwaitInput"
          /\ readline'.tag = "Ok"
          /\ eq_ignore_ascii_case(trim(readline'.line), SaveWord) )
        => ( /\ session' = session
             /\ round_counter' = round_counter
             /\ calls' = calls
             /\ request' = request
             /\ request' = NoRequest
             /\ pc' = "AwaitInput" ) ]_vars

\* C7 witness: a /save in another case than lower case has failed in the
\* write, leaving a truncated file, with a turn recorded.
C7_Witness ==
    /\ pc = "AwaitInput"
    /\ readline.tag = "Ok" /\ readline.line # SaveWord
    /\ eq_ignore_ascii_case(trim(readline.line), SaveWord)
    /\ session.turns # <<>>
    /\ shown = << <<"Failed to save conversation: ", "Failed to write conversation file">> >>
    /\ \E p \in DOMAIN fs.files : fs.files[p] = <<>>

\* C8: while no turn is recorded no file and no directory has been made, and
\* a /save read then has reported that there is nothing to save; so a file
\* exists only when the session holds a turn.
C8_NothingToSave ==
    session.turns = <<>> =>
        /\ DOMAIN fs.files = {}
        /\ fs.dirs = {}
        /\ ( /\ pc = "AwaitInput"
             /\ readline.tag = "Ok"
             /\ eq_ignore_ascii_case(trim(readline.line), SaveWord) )
           => shown = << <<"No conversation to save yet. Ask a question first!">> >>

\* C8 witness: /save is read after two failed turns and none recorded.
C8_Witness ==
    /\ session.turns = <<>>
    /\ failed = 2
    /\ pc = "AwaitInput"
    /\ readline.tag = "Ok" /\ readline.line \in SaveLines

\* The text is exit or quit, in any case.
IsExitText(text) ==
    eq_ignore_ascii_case(text, ExitWord) \/ eq_ignore_ascii_case(text, QuitWord)

\* C9: a step of the running loop ends it exactly when it reads end-of-input
\* or a line that is exit or quit once trimmed; once ended, no request is
\* posted and the session stays as it is; an empty line, an interrupt and a
\* read error leave the loop awaiting input and the session as it was.
C9_TerminatesOnExitOrEof ==
    [][ /\ pc # "Exited" =>
             ( pc' = "Exited" <=>
                 /\ pc = "AwaitInput"
                 /\ \/ readline'.tag = "Eof"
                    \/ readline'.tag = "Ok" /\ IsExitText(trim(readline'.line)) )
        /\ pc = "Exited" =>
             /\ pc' = "Exited"
             /\ session' = session
             /\ calls' = calls
             /\ request' = request
        /\ ( /\ pc = "AwaitInput"
             /\ \/ readline'.tag \in {"Interrupted", "Err"}
                \/ readline'.tag = "Ok" /\ trim(readline'.line) = <<>> )
           => pc' = "AwaitInput" /\ session' = session ]_vars

\* C9 witness: the loop has ended on a quit in mixed case, with a turn
\* recorded, and time has passed since.
C9_Witness ==
    /\ pc = "Exited"
    /\ readline.tag = "Ok" /\ eq_ignore_ascii_case(trim(readline.line), QuitWord)
    /\ readline.line # QuitWord
    /\ session.turns # <<>>
    /\ now = MaxTime

\* The error the last call of this iteration returned.
LastCallResult ==
    call_ai_api(IF moonshot_answer.some THEN deepseek_config ELSE moonshot_config,
                response.v)

\* C10: after a call that got a non-success status with a non-empty body, the
\* call has failed with an error that carries the status code and the body
\* text, and no turn was recorded.
C10_ErrorCarriesStatusAndBody ==
    ( /\ pc = "AwaitInput"
      /\ response.some
      /\ response.v.sent /\ ~is_success(response.v.status)
      /\ response.v.text_ok /\ response.v.text # <<>> )
    => /\ ~LastCallResult.ok
       /\ Contains(LastCallResult.err.msg, response.v.text)
       /\ Contains(LastCallResult.err.msg, FormatNat(response.v.status))
       /\ session.turns = turns_before

\* The provider the last call of this iteration was made to.
LastConfig == IF moonshot_answer.some /\ pc # "CallReviewer"
              THEN deepseek_config ELSE moonshot_config

\* C11: a call that got a success status and a body that deserializes with no
\* choice has failed, with an error that differs from the error the same
\* provider's call returns for every body that does not deserialize; a call
\* that got a body with a choice has returned the content of the first one
\* (the answer held, or the review recorded).
C11_EmptyChoicesDistinctFromMalformed ==
    ( /\ pc \in {"AwaitInput", "CallReviewer"}
      /\ response.some /\ response.v.sent /\ is_success(response.v.status) )
    => LET got == call_ai_api(LastConfig, response.v) IN
       /\ (response.v.parses /\ response.v.choices = <<>>) =>
             /\ ~got.ok
             /\ \A r \in AnswererResponses \cup ReviewerResponses :
                   (r.sent /\ is_success(r.status) /\ ~r.parses)
                   => /\ ~call_ai_api(LastConfig, r).ok
                      /\ call_ai_api(LastConfig, r).err.msg # got.err.msg
       /\ (response.v.parses /\ response.v.choices # <<>>) =>
             /\ got = Ok(response.v.choices[1])
             /\ pc = "CallReviewer" => moonshot_answer = Some(response.v.choices[1])
             /\ pc = "AwaitInput" =>
                   /\ session.turns # <<>>
                   /\ session.turns[Len(session.turns)].deepseek_review
                         = response.v.choices[1]

\* C11 witness: the answerer call of a question has failed on a body that
\* deserializes without choices.
C11_Witness ==
    /\ AnswerFailed
    /\ response.v.sent /\ is_success(response.v.status)
    /\ response.v.parses /\ response.v.choices = <<>>

\* C12: a step posts at most one request; the answerer gets one exactly when
\* a question is read and the reviewer gets one exactly when the answerer has
\* returned for that question; the step in which a call fails posts nothing
\* and goes back to awaiting input, so the call is not issued again.
C12_NoRetries ==
    [][ /\ calls'.moonshot \in {calls.moonshot, calls.moonshot + 1}
        /\ calls'.deepseek \in {calls.deepseek, calls.deepseek + 1}
        /\ calls'.moonshot = calls.moonshot + 1
              <=> (pc = "AwaitInput" /\ pc' = "CallAnswerer")
        /\ calls'.deepseek = calls.deepseek + 1
              <=> (pc = "CallAnswerer" /\ pc' = "CallReviewer")
        /\ (pc' = "CallAnswerer" /\ pc # "CallAnswerer") =>
              (pc = "AwaitInput" /\ readline'.tag = "Ok" /\ readline'.line \in QuestionLines)
        /\ failed' # failed =>
              (failed' = failed + 1 /\ calls' = calls /\ pc' = "AwaitInput"
               /\ request' = NoRequest)
        /\ calls'.moonshot = round_counter'
        /\ calls'.deepseek <= calls'.moonshot ]_vars

\* C12 witness: an answerer call and a reviewer call have failed, and each
\* provider got one request per question that reached it.
C12_Witness ==
    /\ pc = "AwaitInput"
    /\ failed = 2
    /\ calls = [moonshot |-> 2, deepseek |-> 1]
    /\ session.turns = <<>>

\* C13: the step in which a call fails, whatever the failure, and the step
\* that completes a turn both leave the loop awaiting input and never end
\* it; and once a question has been input the loop gets back to awaiting
\* input, given that each issued call returns.
C13_ApiErrorsNonFatal ==
    /\ [][ (failed' # failed \/ completed' # completed) => pc' = "AwaitInput" ]_vars
    /\ [][ pc' = "Exited" => (pc \in {"AwaitInput", "Exited"}) ]_vars
    /\ (pc = "CallAnswerer") ~> (pc = "AwaitInput")
    /\ (pc = "CallReviewer") ~> (pc = "AwaitInput")

\* C13 witness: after a failed reviewer call, a later question whose two
\* calls succeeded has been recorded.
C13_Witness ==
    /\ pc = "AwaitInput"
    /\ failed = 1
    /\ calls.deepseek = 2
    /\ completed = 1
    /\ Len(session.turns) = 1
    /\ session.turns[1].round = 2

\* The step is a /save that reported success.
SaveSucceeded ==
    /\ pc = "AwaitInput"
    /\ readline'.tag = "Ok"
    /\ eq_ignore_ascii_case(trim(readline'.line), SaveWord)
    /\ shown' # <<>>
    /\ IsPrefix(<<"Conversation saved to: ">>, shown'[1])

\* C14: a successful /save never writes to the path of a document saved
\* earlier when a turn has been recorded since: every document already on
\* disk that differs from the session's present rendering is left as it was.
C14_SavesNeverOverwrite ==
    [][ SaveSucceeded =>
          \A p \in DOMAIN fs.files :
              ( /\ fs.files[p] # <<>>
                /\ fs.files[p] # MarkdownContent(session, moonshot_config.model,
                                                 deepseek_config.model) )
              => fs'.files[p] = fs.files[p] ]_vars

\* The characters a filename keeps: ASCII letters and digits, and every
\* character outside ASCII.
KeptInFilename ==
    { "a","b","c","d","e","f","g","h","i","j","k","l","m","n","o","p","q","r","s",
      "t","u","v","w","x","y","z",
      "A","B","C","D","E","F","G","H","I","J","K","L","M","N","O","P","Q","R","S",
      "T","U","V","W","X","Y","Z",
      "0","1","2","3","4","5","6","7","8","9", "U+4F60" }

RECURSIVE DocLines(_)
DocLines(doc) ==
    IF \A i \in 1..Len(doc) : doc[i] # "\n" THEN <<doc>>
    ELSE LET i == CHOOSE k \in 1..Len(doc) :
                     doc[k] = "\n" /\ \A j \in 1..(k - 1) : doc[j] # "\n"
         IN <<SubSeq(doc, 1, i - 1)>> \o DocLines(SubSeq(doc, i + 1, Len(doc)))

\* The lines of the metadata header: those between the opening "---" line
\* and the next "---" line.
HeaderLines(doc) ==
    LET ls == DocLines(doc)
        closing == {i \in 2..Len(ls) : ls[i] = <<"---">>}
    IN IF ls[1] # <<"---">> \/ closing = {} THEN <<>>
       ELSE LET close == CHOOSE i \in closing : \A j \in closing : i <= j
            IN SubSeq(ls, 2, close - 1)

\* The values the header gives for a key.
HeaderField(doc, key) ==
    LET hs == HeaderLines(doc) IN
    {Tail(hs[i]) : i \in {j \in 1..Len(hs) : hs[j] # <<>> /\ hs[j][1] = key}}

\* The number a decimal text stands for, -1 when it is none.
ParseNat(text) ==
    IF \E n \in 0..99 : <<ToString(n)>> = text
    THEN CHOOSE n \in 0..99 : <<ToString(n)>> = text
    ELSE -1

\* The number of per-turn sections: the lines that begin a section.
SectionCount(doc) ==
    LET ls == DocLines(doc) IN
    Cardinality({i \in 1..Len(ls) : ls[i] # <<>> /\ ls[i][1] = "## round "})

\* The last line read was a /save and it reported that it wrote path p.
JustSavedTo(p) ==
    /\ pc = "AwaitInput"
    /\ readline.tag = "Ok"
    /\ shown # <<>>
    /\ shown[1] = <<"Conversation saved to: ">> \o p.dir \o <<"/">> \o p.name

\* C16: the header of every saved document parses to one total_rounds, which
\* is the number of sections of the document, and to the two model
\* identifiers; and the document a /save has just written has total_rounds
\* equal to the number of turns of the session, which is at least one.
C16_HeaderRoundTrip ==
    \A p \in DOMAIN fs.files :
        LET doc == fs.files[p] IN
        doc # <<>> =>
            /\ \E v \in HeaderField(doc, "total_rounds: ") :
                  /\ HeaderField(doc, "total_rounds: ") = {v}
                  /\ ParseNat(v) = SectionCount(doc)
                  /\ ParseNat(v) >= 1
                  /\ JustSavedTo(p) => ParseNat(v) = Len(session.turns)
            /\ HeaderField(doc, "moonshot_model: ") = {moonshot_config.model}
            /\ HeaderField(doc, "deepseek_model: ") = {deepseek_config.model}

\* C16 witness: a session of one turn, numbered 2, whose answer holds a line
\* that reads like a section heading, has just been saved.
C16_Witness ==
    /\ Len(session.turns) = 1
    /\ session.turns[1].round = 2
    /\ session.turns[1].moonshot_answer = AnswerB
    /\ \E p \in DOMAIN fs.files : JustSavedTo(p) /\ fs.files[p] # <<>>

\* The two configurations main resolves: where, from which variable, for
\* which provider.
Resolutions ==
    { [pc |-> "ResolveMoonshot", var |-> "MOONSHOT_API_KEY", key |-> "moonshot",
       name |-> moonshot_config.name],
      [pc |-> "ResolveDeepseek", var |-> "DEEPSEEK_API_KEY", key |-> "deepseek",
       name |-> deepseek_config.name] }

\* C17: a step that resolves a provider whose variable holds a non-empty
\* value takes that value, prints no prompt, reads no line and leaves the
\* config file and the environment alone; a step in which the line typed at
\* the prompt is empty once trimmed displays the error, leaves the config
\* file and the environment alone and resolves no key; and once a resolution
\* has failed the error is displayed, main has returned, the loop is never
\* entered, no request is posted and no turn is recorded.
C17_CredentialResolution ==
    [][ /\ \A r \in Resolutions :
              pc = r.pc =>
                 /\ (boot.env[r.var].some /\ boot.env[r.var].v # <<>>) =>
                       /\ boot'.keys[r.key] = Some(boot.env[r.var].v)
                       /\ boot'.prompted = boot.prompted
                       /\ boot'.typed = boot.typed
                       /\ boot'.file = boot.file
                       /\ boot'.env = boot.env
                       /\ ~boot'.error.some
                       /\ pc' # "Exited"
                 /\ ( /\ boot'.prompted # boot.prompted
                      /\ boot'.typed.some
                      /\ \A i \in 1..Len(boot'.typed.v) :
                            boot'.typed.v[i] \in {" ", "\t", "\r", "\n"} ) =>
                       /\ boot'.error = Some(<<"Configuration Error: ", "API Key for ">>
                                             \o r.name \o <<" cannot be empty">>)
                       /\ boot'.file = boot.file
                       /\ boot'.env = boot.env
                       /\ boot'.keys = boot.keys
                 /\ (pc' = "Exited") <=> boot'.error.some
                 /\ boot'.error.some => ~boot'.keys[r.key].some
        /\ boot'.error.some =>
              /\ ~boot.error.some
              /\ pc' = "Exited"
              /\ calls' = [moonshot |-> 0, deepseek |-> 0]
              /\ request' = NoRequest
              /\ session'.turns = <<>>
        /\ pc' = "AwaitInput" =>
              /\ ~boot'.error.some
              /\ \A r \in Resolutions :
                    boot'.keys[r.key].some /\ boot'.keys[r.key].v # <<>> ]_vars

\* C17 witness: the answerer's key was taken from the environment without a
\* prompt, the line typed for the reviewer's key was blank, and main has
\* returned with the error displayed and no config file written.
C17_Witness ==
    /\ pc = "Exited"
    /\ boot.keys.moonshot = Some(moonshot_config.api_key)
    /\ boot.prompted = <<deepseek_config.name>>
    /\ boot.typed = Some(<<" ", "\t", "\n">>)
    /\ boot.home.some
    /\ boot.file = NoValue
    /\ boot.env.DEEPSEEK_API_KEY = Some(<<>>)
    /\ boot.error = Some(<<"Configuration Error: ", "API Key for ", "DeepSeek AI",
                           " cannot be empty">>)

\* A heading and, next, a text are among what the iteration has printed.
Displayed(heading, text) ==
    \E i \in 1..(Len(shown) - 1) : shown[i] = <<heading>> /\ shown[i + 1] = text

\* C18: once the answerer has succeeded for a question its answer is among
\* what is printed, during the reviewer's call and after it, also when the
\* reviewer has failed and no turn was recorded; the review heading is
\* printed only when the reviewer has succeeded; and when the turn has been
\* appended, its answer and its review are both printed.
C18_OutputsDisplayed ==
    /\ (moonshot_answer.some /\ pc \in {"CallReviewer", "AwaitInput"}) =>
          Displayed("--- Moonshot AI Answer ---", moonshot_answer.v)
    /\ ReviewFailed =>
          /\ session.turns = turns_before
          /\ Displayed("--- Moonshot AI Answer ---", moonshot_answer.v)
          /\ \A i \in 1..Len(shown) : shown[i] # <<"--- DeepSeek AI Review ---">>
    /\ (\E i \in 1..Len(shown) : shown[i] = <<"--- DeepSeek AI Review ---">>) =>
          TurnCompleted
    /\ TurnCompleted =>
          LET turn == session.turns[Len(session.turns)] IN
          /\ Len(session.turns) = Len(turns_before) + 1
          /\ turn.moonshot_answer = moonshot_answer.v
          /\ Displayed("--- Moonshot AI Answer ---", turn.moonshot_answer)
          /\ Displayed("--- DeepSeek AI Review ---", turn.deepseek_review)

\* C18 witness: the reviewer has failed after the answerer gave an answer of
\* two lines, which is displayed, and no turn is recorded.
C18_Witness ==
    /\ ReviewFailed
    /\ session.turns = <<>>
    /\ moonshot_answer = Some(AnswerB)
    /\ Displayed("--- Moonshot AI Answer ---", AnswerB)

\* The k-th per-turn section of a document: its lines from the k-th section
\* heading up to the next one, or the end.
Section(doc, k) ==
    LET ls == DocLines(doc)
        heads == {i \in 1..Len(ls) : ls[i] # <<>> /\ ls[i][1] = "## round "}
        nth(n) == CHOOSE i \in heads : Cardinality({j \in heads : j < i}) = n - 1
        last == IF k < Cardinality(heads) THEN nth(k + 1) - 1 ELSE Len(ls)
    IN SubSeq(ls, nth(k), last)

\* The block that follows a label line in a section: the lines after the
\* label and the bare marker under it, up to the next empty line.
BlockAfter(sec, label) ==
    LET at == {i \in 1..Len(sec) : sec[i] = label} IN
    IF Cardinality(at) # 1 THEN << <<"no such label">> >>
    ELSE LET i == CHOOSE j \in at : TRUE
             ends == {j \in (i + 2)..Len(sec) : sec[j] = <<>>}
             end == IF ends = {} THEN Len(sec) + 1
                    ELSE CHOOSE j \in ends : \A e \in ends : j <= e
         IN SubSeq(sec, i + 2, end - 1)

\* The lines of a text, each behind the block-quote marker.
Quoted(text) == [i \in 1..Len(lines(text)) |-> <<"> ">> \o lines(text)[i]]

\* C19: every saved document holds one section per turn recorded when it was
\* saved, in the order of recording: the k-th section is headed by the round
\* of the k-th turn, holds its question, and its answer block and its review
\* block are the lines of the answer and of the review, in order, each
\* behind "> ".
C19_SectionsRenderTurns ==
    \A p \in DOMAIN fs.files :
        LET doc == fs.files[p]
            n == SectionCount(doc)
        IN doc # <<>> =>
            /\ n >= 1 /\ n <= Len(session.turns)
            /\ JustSavedTo(p) => n = Len(session.turns)
            /\ \A k \in 1..n :
                  LET sec == Section(doc, k)
                      turn == session.turns[k]
                  IN /\ sec[1] = <<"## round ", ToString(turn.round)>>
                     /\ \E i \in 1..Len(sec) :
                           sec[i] = <<"> ", "**user**: ">> \o turn.user_question
                     /\ BlockAfter(sec, <<"> ", "**Moonshot** (">>
                                        \o moonshot_config.model \o <<")">>)
                           = Quoted(turn.moonshot_answer)
                     /\ BlockAfter(sec, <<"> ", "**DeepSeek** (">>
                                        \o deepseek_config.model \o <<")">>)
                           = Quoted(turn.deepseek_review)

\* C19 witness: a session of two turns, the first with an answer of two lines
\* and both with a review of two lines, has just been saved.
C19_Witness ==
    /\ Len(session.turns) = 2
    /\ session.turns[1].moonshot_answer = AnswerB
    /\ session.turns[1].user_question # session.turns[2].user_question
    /\ Len(lines(session.turns[2].deepseek_review)) = 2
    /\ \E p \in DOMAIN fs.files :
          JustSavedTo(p) /\ SectionCount(fs.files[p]) = 2

\* C20: the counter is the number of questions for which the answerer was
\* called, whether the call succeeded or not, and is at least the number of
\* recorded turns; the rounds of the recorded turns increase strictly in the
\* order of recording, so they are pairwise distinct, start at one or more
\* and none exceeds the counter.
C20_CounterAndRounds ==
    /\ round_counter = calls.moonshot
    /\ round_counter >= Len(session.turns)
    /\ round_counter >= completed
    /\ \A i \in 1..Len(session.turns) :
          /\ session.turns[i].round >= 1
          /\ session.turns[i].round <= round_counter
          /\ \A j \in 1..Len(session.turns) :
                i < j => session.turns[i].round < session.turns[j].round

\* C20 witness: the answerer was called for two questions, the first was
\* recorded and the second failed at the answerer, so the counter is ahead
\* of the number of turns.
C20_Witness ==
    /\ AnswerFailed
    /\ round_counter = 2
    /\ calls = [moonshot |-> 2, deepseek |-> 1]
    /\ Len(session.turns) = 1
    /\ session.turns[1].round = 1

====
